---- MODULE Spec2Model ----
(***************************************************************************)
(* Demo generator: the generation client (services/gemini.ts bringToLife), *)
(* the input area (InputArea) and the preview panel (LivePreview).         *)
(*                                                                         *)
(* Text is modelled as a sequence of one-character strings, so that the    *)
(* regular expressions and trim() are computed character by character.     *)
(***************************************************************************)
EXTENDS Integers, Sequences, FiniteSets, TLC

VARIABLES
    \* ---- one call of bringToLife (services/gemini.ts)
    cUrl, cInstructions, cImages,   \* the arguments of the call
    cPc,                            \* "ready" | "awaiting" | "returned" | "thrown"
    cSent,                          \* the requests handed to generateContent, in order
    cResponse,                      \* what generateContent resolved or rejected with
    cOutcome,                       \* what the call gave back to its caller
    cLog                            \* console.error lines

VARIABLES
    \* ---- InputArea (React state of the component)
    url, instructions, attachedFiles, isDragging,
    \* ---- the application that owns InputArea and LivePreview
    isGenerating,                   \* passed down as isGenerating and isLoading
    creation,                       \* the active Creation, or NoCreation
    pending,                        \* the bringToLife calls not yet settled
    nextId,                         \* the number of the next onGenerate call
    \* ---- LivePreview (React state of the component)
    loadingStep, showSplitView, isRecording,
    copiedPrompt,                   \* the "copied" acknowledgment is showing
    copyWrites,                     \* clipboard.writeText promises not yet settled
    copyTimers,                     \* setTimeout(..., 2000) callbacks not yet run
    \* ---- the browser's screen capture
    captureSupported,               \* navigator.mediaDevices.getDisplayMedia exists
    captures,                       \* the handleRecordVideo calls past the support check
    \* ---- the last event delivered to the page, and what its handler did
    \* ---- to the browser: downloads, clipboard writes, capture requests
    lastEvent, effects

clientVars == <<cUrl, cInstructions, cImages, cPc, cSent, cResponse, cOutcome, cLog>>
inputVars == <<url, instructions, attachedFiles, isDragging>>
appVars == <<isGenerating, creation, pending, nextId>>
previewVars == <<loadingStep, showSplitView, isRecording>>
copyVars == <<copiedPrompt, copyWrites, copyTimers>>
captureVars == <<captureSupported, captures>>
uiVars == <<inputVars, appVars, previewVars, copyVars, captureVars, lastEvent, effects>>

vars == <<clientVars, uiVars>>

-----------------------------------------------------------------------------
(* Bounds *)

MaxPieces == 7      \* a model response is at most this many pieces long
MaxImages == 2      \* attachments handed to one call
MaxFiles == 2       \* files in the attachment list
MaxGenerations == 2 \* onGenerate calls in one run
MaxCaptures == 2    \* handleRecordVideo calls that reach getDisplayMedia in one run
MaxCopies == 2      \* copies whose promise or timer is still pending
MaxChunks == 2      \* chunks one recorder keeps
MaxNameLen == 3     \* characters of a creation name
MaxHtmlPieces == 4  \* pieces of a generated document

-----------------------------------------------------------------------------
(* Text helpers *)

WhiteSpace == {" ", "\n"}

StartsWith(s, p) ==
    /\ Len(s) >= Len(p)
    /\ SubSeq(s, 1, Len(p)) = p

EndsWith(s, p) ==
    /\ Len(s) >= Len(p)
    /\ SubSeq(s, Len(s) - Len(p) + 1, Len(s)) = p

Drop(s, n) == SubSeq(s, n + 1, Len(s))

RECURSIVE TrimEnd(_)
TrimEnd(s) ==
    IF s # <<>> /\ s[Len(s)] \in WhiteSpace THEN TrimEnd(SubSeq(s, 1, Len(s) - 1)) ELSE s

RECURSIVE TrimStart(_)
TrimStart(s) ==
    IF s # <<>> /\ Head(s) \in WhiteSpace THEN TrimStart(Tail(s)) ELSE s

\* String.prototype.trim
Trim(s) == TrimEnd(TrimStart(s))

RECURSIVE SkipSpace(_)
\* the greedy \s* of a pattern anchored at the start of what is left
SkipSpace(s) ==
    IF s # <<>> /\ Head(s) \in WhiteSpace THEN SkipSpace(Tail(s)) ELSE s

\* the grave accent, the one character a TLA+ string cannot hold, is named
Backtick == "GRAVE"

Fence == <<Backtick, Backtick, Backtick>>
HtmlTag == <<"h", "t", "m", "l">>

\* text.replace(/^```html\s*/, '')
StripHtmlFence(s) ==
    IF StartsWith(s, Fence \o HtmlTag) THEN SkipSpace(Drop(s, 7)) ELSE s

\* text.replace(/^```\s*/, '')
StripOpenFence(s) ==
    IF StartsWith(s, Fence) THEN SkipSpace(Drop(s, 3)) ELSE s

RECURSIVE RemoveFirstFence(_)
\* text.replace(/```/, ''): the closing pattern without its anchor
RemoveFirstFence(s) ==
    IF s = <<>> THEN s
    ELSE IF StartsWith(s, Fence) THEN Drop(s, 3)
    ELSE <<Head(s)>> \o RemoveFirstFence(Tail(s))

\* the closing fence removed wherever the first fence is
StripCloseFenceUnanchored(s) == RemoveFirstFence(s)

\* text.replace(/```$/, ''): no m flag, $ is the end of the input only
StripCloseFence(s) ==
    IF EndsWith(s, Fence) THEN SubSeq(s, 1, Len(s) - 3) ELSE s

StripFences(s) == StripCloseFence(StripOpenFence(StripHtmlFence(s)))

Placeholder ==
    << "<", "!", "-", "-", " ", "F", "a", "i", "l", "e", "d", " ", "t", "o", " ",
       "g", "e", "n", "e", "r", "a", "t", "e", " ", "c", "o", "n", "t", "e", "n",
       "t", " ", "-", "-", ">" >>

\* response.text with no fallback
ResponseTextNoFallback(resp) == resp.text

\* response.text || "<!-- Failed to generate content -->": undefined and ""
\* are both falsy
ResponseText(resp) ==
    IF ~resp.hasText \/ resp.text = <<>> THEN Placeholder ELSE resp.text

-----------------------------------------------------------------------------
(* The inputs the model draws from *)

Pieces == { Fence, HtmlTag, <<"\n">>, <<"x">> }

RECURSIVE Concats(_)
Concats(n) ==
    IF n = 0 THEN { <<>> }
    ELSE LET shorter == Concats(n - 1)
         IN  shorter \cup { p \o s : p \in Pieces, s \in shorter }

ResponseTexts == Concats(MaxPieces)

Resolved(hasText, text) == [kind |-> "resolved", hasText |-> hasText, text |-> text]
Rejected(err) == [kind |-> "rejected", error |-> err]
NoResponse == [kind |-> "none"]

\* a response with no text field is Resolved(FALSE, <<>>)
Responses ==
    { Resolved(TRUE, t) : t \in ResponseTexts } \cup { Resolved(FALSE, <<>>) }

\* the responses one whole call is run against
FewResponses ==
    { Resolved(FALSE, <<>>), Resolved(TRUE, <<>>), Resolved(TRUE, <<"x">>),
      Resolved(TRUE, Fence \o HtmlTag \o <<"\n", "x">> \o Fence) }

ClientTexts == { <<>>, <<"a">> }

Attachments ==
    { [base64 |-> "AAAA", mimeType |-> "image/png"],
      [base64 |-> "BBBB", mimeType |-> "image/jpeg"] }

RECURSIVE SeqsUpTo(_, _)
SeqsUpTo(S, n) ==
    IF n = 0 THEN { <<>> }
    ELSE LET shorter == SeqsUpTo(S, n - 1)
         IN  shorter \cup { Append(s, x) : s \in shorter, x \in S }

Errors == { "network", "quota" }

-----------------------------------------------------------------------------
(* bringToLife *)

TextPart(u, ins, images) ==
    [kind |-> "text", url |-> u, instructions |-> ins,
     imageCount |-> Len(images)]

InlinePart(img) ==
    [kind |-> "inlineData", data |-> img.base64, mimeType |-> img.mimeType]

\* the images pushed in front of the parts instead of behind them
BuildPartsUnshift(u, ins, images) ==
    [i \in 1..Len(images) |-> InlinePart(images[Len(images) + 1 - i])]
        \o <<TextPart(u, ins, images)>>

\* parts.push({ text: finalPrompt }); images.forEach(img => parts.push(...))
BuildParts(u, ins, images) ==
    <<TextPart(u, ins, images)>>
        \o [i \in 1..Len(images) |-> InlinePart(images[i])]

NoOutcome == [kind |-> "none"]

NoCreation == [id |-> 0]
NoImage == [defined |-> FALSE]

\* the page as it is first rendered, the browser left open
UiInit ==
    /\ url = <<>>
    /\ instructions = <<>>
    /\ attachedFiles = <<>>
    /\ isDragging = FALSE
    /\ isGenerating = FALSE
    /\ creation = NoCreation
    /\ pending = {}
    /\ nextId = 1
    /\ loadingStep = 0
    /\ showSplitView = FALSE
    /\ isRecording = FALSE
    /\ copiedPrompt = FALSE
    /\ copyWrites = 0
    /\ copyTimers = 0
    /\ captures = <<>>
    /\ lastEvent = "load"
    /\ effects = {}

\* no call of bringToLife under way
ClientIdle ==
    /\ cUrl = <<>>
    /\ cInstructions = <<>>
    /\ cImages = <<>>
    /\ cPc = "ready"
    /\ cSent = <<>>
    /\ cResponse = NoResponse
    /\ cOutcome = NoOutcome
    /\ cLog = <<>>

ClientInit ==
    /\ cUrl \in ClientTexts
    /\ cInstructions \in ClientTexts
    /\ cImages \in SeqsUpTo(Attachments, MaxImages)
    /\ cPc = "ready"
    /\ cSent = <<>>
    /\ cResponse = NoResponse
    /\ cOutcome = NoOutcome
    /\ cLog = <<>>
    /\ UiInit
    /\ captureSupported = TRUE

\* the call the fence stripping is exercised on
StripInit == ClientIdle /\ UiInit /\ captureSupported = TRUE

\* the synchronous part of bringToLife, up to the await
ClientCall ==
    /\ cPc = "ready"
    /\ cSent' = Append(cSent, BuildParts(cUrl, cInstructions, cImages))
    /\ cPc' = "awaiting"
    /\ UNCHANGED <<cUrl, cInstructions, cImages, cResponse, cOutcome, cLog>>
    /\ UNCHANGED uiVars

\* generateContent resolves: the try block after the await
ClientResolve(resp) ==
    /\ cPc = "awaiting"
    /\ cResponse' = resp
    /\ cOutcome' = [kind |-> "returned", value |-> StripFences(ResponseText(resp))]
    /\ cPc' = "returned"
    /\ UNCHANGED <<cUrl, cInstructions, cImages, cSent, cLog>>
    /\ UNCHANGED uiVars

\* a catch block that asks the model again
ClientRejectRetry(err) ==
    /\ cPc = "awaiting"
    /\ Len(cSent) < 3
    /\ cLog' = Append(cLog, err)
    /\ cSent' = Append(cSent, BuildParts(cUrl, cInstructions, cImages))
    /\ UNCHANGED <<cUrl, cInstructions, cImages, cPc, cResponse, cOutcome>>
    /\ UNCHANGED uiVars

\* a catch block that hands back the placeholder
ClientRejectSwallow(err) ==
    /\ cPc = "awaiting"
    /\ cLog' = Append(cLog, err)
    /\ cResponse' = Rejected(err)
    /\ cOutcome' = [kind |-> "returned", value |-> Placeholder]
    /\ cPc' = "returned"
    /\ UNCHANGED <<cUrl, cInstructions, cImages, cSent>>
    /\ UNCHANGED uiVars

\* generateContent rejects: the catch block logs and rethrows
ClientReject(err) ==
    /\ cPc = "awaiting"
    /\ cLog' = Append(cLog, err)
    /\ cResponse' = Rejected(err)
    /\ cOutcome' = [kind |-> "thrown", error |-> err]
    /\ cPc' = "thrown"
    /\ UNCHANGED <<cUrl, cInstructions, cImages, cSent>>
    /\ UNCHANGED uiVars

ClientNext ==
    \/ ClientCall
    \/ \E resp \in FewResponses : ClientResolve(resp)
    \/ \E err \in Errors : ClientReject(err)

\* one call of bringToLife, over every argument list
SpecClient == ClientInit /\ [][ClientNext]_vars

StripResolve ==
    /\ cPc = "awaiting"
    /\ \E resp \in Responses : ClientResolve(resp)

StripNext ==
    \/ ClientCall
    \/ StripResolve
    \/ \E err \in Errors : ClientReject(err)

\* one call of bringToLife, over every response text
SpecStrip == StripInit /\ [][StripNext]_vars

-----------------------------------------------------------------------------
(* The inputs of the page *)

\* what the URL and instruction fields are given to hold
Texts == { <<>>, <<" ", "\n">>, <<" ", "a", "\n">> }

\* files as the browser offers them: a MIME type and a content
PngFile == [type |-> "image/png", data |-> "AAAA"]
TextFile == [type |-> "text/plain", data |-> "BBBB"]

\* what one pick, paste or drop offers
FileLists ==
    { <<>>, <<TextFile>>, <<TextFile, PngFile>>, <<PngFile, PngFile>> }

\* file.type.startsWith('image/')
IsImage(file) == file.type \in { "image/png", "image/jpeg" }

\* the name the application derives for a Creation: "Linear.app Demo!"
DemoName ==
    << "L", "i", "n", "e", "a", "r", ".", "a", "p", "p", " ", "D", "e", "m", "o", "!" >>

\* the texts a generation comes back with
UiResponses ==
    { Resolved(FALSE, <<>>),
      Resolved(TRUE, Fence \o HtmlTag \o <<"\n", "x">> \o Fence) }

-----------------------------------------------------------------------------
(* LivePreview: the effects that follow a change of its props *)

HasImage(c) == c # NoCreation /\ c.originalImage # NoImage

\* the loading effect with its else branch lost
LoadingEffectNoReset(step, wasLoading, nowLoading) ==
    IF wasLoading = nowLoading THEN step
    ELSE IF nowLoading THEN 0 ELSE step

\* useEffect(..., [isLoading]): both branches set the step to 0
LoadingEffect(step, wasLoading, nowLoading) ==
    IF wasLoading = nowLoading THEN step ELSE 0

\* the split-view effect with its else branch lost
SplitEffectNoElse(split, oldCreation, newCreation) ==
    IF oldCreation = newCreation THEN split
    ELSE IF HasImage(newCreation) THEN TRUE ELSE split

\* useEffect(..., [creation]): creation?.originalImage decides
SplitEffect(split, oldCreation, newCreation) ==
    IF oldCreation = newCreation THEN split ELSE HasImage(newCreation)

-----------------------------------------------------------------------------
(* LivePreview: what the export handlers compute *)

LowerLetters == { "a", "d", "e", "i", "l", "m", "n", "o", "p", "r" }
UpperLetters == { "D", "L" }
Digits == { "7" }

\* a letter outside a-z and A-Z, one piece of a name like any character
EAcute == "E-ACUTE"

\* String.prototype.toLowerCase, on the characters of the model
ToLower(c) ==
    CASE c = "D" -> "d"
      [] c = "L" -> "l"
      [] OTHER -> c

\* [a-z0-9] under the i flag
IsAlnum(c) == c \in LowerLetters \cup UpperLetters \cup Digits

RECURSIVE RemoveNonAlnum(_)
\* name.replace(/[^a-z0-9]/gi, ''): the characters taken out
RemoveNonAlnum(name) ==
    IF name = <<>> THEN <<>>
    ELSE IF IsAlnum(Head(name)) THEN <<Head(name)>> \o RemoveNonAlnum(Tail(name))
    ELSE RemoveNonAlnum(Tail(name))

\* the sanitising that takes the other characters out of the name
SanitizeRemoving(name) ==
    LET kept == RemoveNonAlnum(name)
    IN  [i \in 1..Len(kept) |-> ToLower(kept[i])]

\* creation.name.replace(/[^a-z0-9]/gi, '_').toLowerCase()
Sanitize(name) ==
    [i \in 1..Len(name) |-> ToLower(IF IsAlnum(name[i]) THEN name[i] ELSE "_")]

DotHtml == << ".", "h", "t", "m", "l" >>
DemoWebm == << "_", "d", "e", "m", "o", ".", "w", "e", "b", "m" >>

\* `${...}.html`
HtmlFileName(name) == Sanitize(name) \o DotHtml

\* `${...}_demo.webm`
WebmFileName(name) == Sanitize(name) \o DemoWebm

\* the opening and the closing tag of the pattern, each one piece of a document
PromptOpen == "<script id=\"design-prompt-data\" type=\"text/plain\">"
ScriptClose == "</script>"

RECURSIVE FirstIndex(_, _, _)
\* the first index from `from` on where s holds x, or 0
FirstIndex(s, x, from) ==
    IF from > Len(s) THEN 0
    ELSE IF s[from] = x THEN from
    ELSE FirstIndex(s, x, from + 1)

NoMatch == [matched |-> FALSE]

\* html.match(/<script id="design-prompt-data" type="text\/plain">([\s\S]*?)<\/script>/):
\* the first opening tag that a closing tag follows, and the shortest text
\* between the two
PromptMatch(html) ==
    LET o == FirstIndex(html, PromptOpen, 1)
        c == IF o = 0 THEN 0 ELSE FirstIndex(html, ScriptClose, o + 1)
    IN  IF o = 0 \/ c = 0 THEN NoMatch
        ELSE [matched |-> TRUE, group |-> SubSeq(html, o + 1, c - 1)]

\* `Create a product demo video for ${creation.name}. Include ...`
FallbackPrompt(name) ==
    << "Create a product demo video for " >> \o name
        \o << ". Include cursor animations and voiceover script." >>

\* if (match && match[1]) promptText = match[1].trim(); else the sentence:
\* an empty match[1] is falsy
PromptText(html, name) ==
    LET m == PromptMatch(html)
    IN  IF m.matched /\ m.group # <<>> THEN Trim(m.group) ELSE FallbackPrompt(name)

\* what a handler does to the browser
Download(filename, type, content) ==
    [kind |-> "download", filename |-> filename, type |-> type, content |-> content]
ClipboardWrite(text) == [kind |-> "clipboard write", text |-> text]
CaptureRequest == [kind |-> "capture request"]
RecorderStart == [kind |-> "recorder start"]
FrameReload == [kind |-> "frame reload"]
TracksStopped(i) == [kind |-> "tracks stopped", capture |-> i]
Alert == [kind |-> "alert"]
UnhandledRejection == [kind |-> "unhandled rejection"]

-----------------------------------------------------------------------------
(* The application: the owner of isGenerating and of the active Creation *)

\* the application renders with a new Creation and a new isGenerating, and
\* LivePreview's effects run on the props that changed
AppRender(newCreation, nowGenerating) ==
    /\ creation' = newCreation
    /\ isGenerating' = nowGenerating
    /\ loadingStep' = LoadingEffect(loadingStep, isGenerating, nowGenerating)
    /\ showSplitView' = SplitEffect(showSplitView, creation, newCreation)

\* the reference image kept with a Creation: the first attached file
FirstImage(files) ==
    IF files = <<>> THEN NoImage
    ELSE [defined |-> TRUE, mimeType |-> files[1].type, data |-> files[1].data]

\* onGenerate: Idle to Generating, one bringToLife call fired
OnGenerate(u, ins, files) ==
    /\ nextId <= MaxGenerations
    /\ pending' = pending \cup { [id |-> nextId, originalImage |-> FirstImage(files)] }
    /\ nextId' = nextId + 1
    /\ AppRender(NoCreation, TRUE)

\* a bringToLife call resolves: Generating to Rendered, the Creation set
GenerationSucceeds(req, resp) ==
    /\ req \in pending
    /\ pending' = pending \ { req }
    /\ AppRender([id |-> req.id, name |-> DemoName,
                  originalImage |-> req.originalImage,
                  html |-> StripFences(ResponseText(resp))], FALSE)
    /\ lastEvent' = "succeeded"
    /\ effects' = {}
    /\ UNCHANGED <<inputVars, nextId, isRecording, captureVars, copyVars, clientVars>>

\* a bringToLife call rejects: Generating to Idle
GenerationFails(req) ==
    /\ req \in pending
    /\ pending' = pending \ { req }
    /\ AppRender(creation, FALSE)
    /\ lastEvent' = "failed"
    /\ effects' = {}
    /\ UNCHANGED <<inputVars, nextId, isRecording, captureVars, copyVars, clientVars>>

\* the close button is always in the panel's header; New Project only once
\* a Creation is shown
ResetReachable == TRUE

\* onReset: Rendered or Generating to Idle, the Creation discarded
Reset ==
    /\ ResetReachable
    /\ AppRender(NoCreation, FALSE)
    /\ lastEvent' = "reset"
    /\ effects' = {}
    /\ UNCHANGED <<inputVars, pending, nextId, isRecording, captureVars, copyVars, clientVars>>

-----------------------------------------------------------------------------
(* InputArea *)

\* the disabled prop, at its default
disabled == FALSE

\* !url.trim() && !instructions.trim() && attachedFiles.length === 0
InputEmpty == Trim(url) = <<>> /\ Trim(instructions) = <<>> /\ Len(attachedFiles) = 0

\* the submit button that only looks at the input
SubmitDisabledIgnoringGenerating == InputEmpty

\* the submit button's disabled attribute
SubmitDisabled == InputEmpty \/ isGenerating

\* a textarea that stays enabled
TextareaDisabledNever == FALSE

\* the textarea's disabled attribute
TextareaDisabled == isGenerating

\* handleSubmit with its guard lost
HandleSubmitUnguarded ==
    /\ OnGenerate(url, instructions, attachedFiles)
    /\ instructions' = <<>>
    /\ attachedFiles' = <<>>
    /\ UNCHANGED <<url, isDragging>>

HandleSubmit ==
    IF InputEmpty
    THEN UNCHANGED <<inputVars, appVars, loadingStep, showSplitView>>
    ELSE /\ OnGenerate(url, instructions, attachedFiles)
         /\ instructions' = <<>>
         /\ attachedFiles' = <<>>
         /\ UNCHANGED <<url, isDragging>>

\* a click on the submit button: a disabled button gets no click
ClickSubmit ==
    /\ lastEvent' = "click submit"
    /\ effects' = {}
    /\ IF SubmitDisabled
       THEN UNCHANGED <<inputVars, appVars, loadingStep, showSplitView>>
       ELSE HandleSubmit
    /\ UNCHANGED <<isRecording, captureVars, copyVars, clientVars>>

\* Enter without Shift in the textarea: a disabled textarea gets no key
EnterKey ==
    /\ lastEvent' = "enter"
    /\ effects' = {}
    /\ IF TextareaDisabled
       THEN UNCHANGED <<inputVars, appVars, loadingStep, showSplitView>>
       ELSE HandleSubmit
    /\ UNCHANGED <<isRecording, captureVars, copyVars, clientVars>>

\* typing in the URL field
SetUrl(v) ==
    /\ url' = v
    /\ lastEvent' = "edit"
    /\ effects' = {}
    /\ UNCHANGED <<instructions, attachedFiles, isDragging, appVars, previewVars, captureVars, copyVars, clientVars>>

\* typing in the textarea
SetInstructions(v) ==
    /\ ~TextareaDisabled
    /\ instructions' = v
    /\ lastEvent' = "edit"
    /\ effects' = {}
    /\ UNCHANGED <<url, attachedFiles, isDragging, appVars, previewVars, captureVars, copyVars, clientVars>>

RECURSIVE TypesOf(_)
\* the MIME types of the files offered, one after the other
TypesOf(files) ==
    IF files = <<>> THEN "" ELSE " " \o Head(files).type \o TypesOf(Tail(files))

\* the file picker, the clipboard and the drag
Origins == { "pick", "paste", "drop" }

\* the events that offer files, named once each
OfferNames ==
    [origin \in Origins |-> [offered \in FileLists |-> origin \o TypesOf(offered)]]

\* the event that offers files: where they come from and what they are
Offer(origin, offered) == OfferNames[origin][offered]

\* the attachment list is capped for the model's sake only
Room(newFiles) == Len(attachedFiles) + Len(newFiles) <= MaxFiles

\* handleFileChange: setAttachedFiles(prev => [...prev, ...newFiles])
AfterFileChange(offered) ==
    IF Len(offered) > 0 THEN attachedFiles \o offered ELSE attachedFiles

\* handlePaste: the image files among those pasted, if there are any
AfterPaste(offered) ==
    IF disabled \/ isGenerating THEN attachedFiles
    ELSE IF Len(offered) > 0 /\ Len(SelectSeq(offered, IsImage)) > 0
         THEN attachedFiles \o SelectSeq(offered, IsImage)
         ELSE attachedFiles

\* a drop handler that takes every file
AfterDropUnfiltered(offered) ==
    IF disabled \/ isGenerating THEN attachedFiles
    ELSE IF Len(offered) > 0
         THEN attachedFiles \o offered
         ELSE attachedFiles

\* handleDrop: the image files among those dropped
AfterDrop(offered) ==
    IF disabled \/ isGenerating THEN attachedFiles
    ELSE IF Len(offered) > 0
         THEN attachedFiles \o SelectSeq(offered, IsImage)
         ELSE attachedFiles

\* the file picker's change event
HandleFileChange(offered) ==
    /\ Room(offered)
    /\ attachedFiles' = AfterFileChange(offered)
    /\ lastEvent' = "edit"
    /\ effects' = {}
    /\ UNCHANGED <<url, instructions, isDragging, appVars, previewVars, captureVars, copyVars, clientVars>>

\* the window's paste event
HandlePaste(offered) ==
    /\ Room(offered)
    /\ lastEvent' = "edit"
    /\ effects' = {}
    /\ attachedFiles' = AfterPaste(offered)
    /\ UNCHANGED <<url, instructions, isDragging, appVars, previewVars, captureVars, copyVars, clientVars>>

\* the drop event on the input card
HandleDrop(offered) ==
    /\ Room(offered)
    /\ lastEvent' = "edit"
    /\ effects' = {}
    /\ isDragging' = FALSE
    /\ attachedFiles' = AfterDrop(offered)
    /\ UNCHANGED <<url, instructions, appVars, previewVars, captureVars, copyVars, clientVars>>

\* one of the three events, named by where its files come from and what
\* they are
OfferFiles(origin, offered) ==
    /\ Room(offered)
    /\ lastEvent' = Offer(origin, offered)
    /\ effects' = {}
    /\ isDragging' = IF origin = "drop" THEN FALSE ELSE isDragging
    /\ attachedFiles' =
          CASE origin = "pick" -> AfterFileChange(offered)
            [] origin = "paste" -> AfterPaste(offered)
            [] origin = "drop" -> AfterDrop(offered)
    /\ UNCHANGED <<url, instructions, appVars, previewVars, captureVars, copyVars, clientVars>>

DragOver ==
    /\ isDragging' = TRUE
    /\ lastEvent' = "edit"
    /\ effects' = {}
    /\ UNCHANGED <<url, instructions, attachedFiles, appVars, previewVars, captureVars, copyVars, clientVars>>

DragLeave ==
    /\ isDragging' = FALSE
    /\ lastEvent' = "edit"
    /\ effects' = {}
    /\ UNCHANGED <<url, instructions, attachedFiles, appVars, previewVars, captureVars, copyVars, clientVars>>

\* prev.filter((_, i) => i !== index), index counted from 0
RemoveFile(index) ==
    /\ index \in 0..(Len(attachedFiles) - 1)
    /\ attachedFiles' =
          SubSeq(attachedFiles, 1, index) \o SubSeq(attachedFiles, index + 2, Len(attachedFiles))
    /\ lastEvent' = "edit"
    /\ effects' = {}
    /\ UNCHANGED <<url, instructions, isDragging, appVars, previewVars, captureVars, copyVars, clientVars>>

InputInit == ClientIdle /\ UiInit /\ captureSupported = TRUE

InputNext ==
    \/ ClickSubmit
    \/ EnterKey
    \/ \E v \in Texts : SetUrl(v)
    \/ \E v \in Texts : SetInstructions(v)
    \/ \E offered \in FileLists : HandleFileChange(offered)
    \/ \E offered \in FileLists : HandlePaste(offered)
    \/ \E offered \in FileLists : HandleDrop(offered)
    \/ DragOver
    \/ DragLeave
    \/ \E index \in 0..(MaxFiles - 1) : RemoveFile(index)
    \/ \E req \in pending : GenerationSucceeds(req, Resolved(TRUE, <<"x">>))
    \/ \E req \in pending : GenerationFails(req)
    \/ Reset

\* the input area, with the application's generations behind it
SpecInput == InputInit /\ [][InputNext]_vars

AttachNext ==
    \/ \E origin \in Origins, offered \in FileLists : OfferFiles(origin, offered)
    \/ \E index \in 0..(MaxFiles - 1) : RemoveFile(index)
    \/ DragOver
    \/ DragLeave
    \/ ClickSubmit
    \/ \E req \in pending : GenerationSucceeds(req, Resolved(TRUE, <<"x">>))
    \/ \E req \in pending : GenerationFails(req)
    \/ Reset

\* the attachment list of the input area, every offer of files told apart
SpecAttach == InputInit /\ [][AttachNext]_vars

-----------------------------------------------------------------------------
(* LivePreview: the panel's controls *)

\* the header actions shown whenever nothing is loading
ActionsShownWithoutCreation == ~isGenerating

\* {!isLoading && creation && (...)}: the actions on the right of the header
ActionsShown == ~isGenerating /\ creation # NoCreation

\* isLoading ? ... : creation?.html ? (... <iframe ref={iframeRef} .../>) : null
FrameShown == ~isGenerating /\ creation # NoCreation /\ creation.html # <<>>

\* handleDownloadHtml: if (!creation) return
ClickDownload ==
    /\ ActionsShown
    /\ lastEvent' = "click download"
    /\ effects' = IF creation = NoCreation THEN {}
                  ELSE { Download(HtmlFileName(creation.name), "text/html", creation.html) }
    /\ UNCHANGED <<inputVars, appVars, previewVars, captureVars, copyVars, clientVars>>

\* handleCopyPrompt, up to the promise writeText returns: if (!creation) return
ClickCopy ==
    /\ ActionsShown
    /\ copyWrites + copyTimers < MaxCopies
    /\ lastEvent' = "click copy"
    /\ IF creation = NoCreation
       THEN effects' = {} /\ UNCHANGED copyWrites
       ELSE /\ effects' = { ClipboardWrite(PromptText(creation.html, creation.name)) }
            /\ copyWrites' = copyWrites + 1
    /\ UNCHANGED <<inputVars, appVars, previewVars, captureVars, copiedPrompt, copyTimers, clientVars>>

\* writeText resolves: setCopiedPrompt(true) and a timer of 2000 ms is set
ClipboardResolved ==
    /\ copyWrites > 0
    /\ copyWrites' = copyWrites - 1
    /\ copiedPrompt' = TRUE
    /\ copyTimers' = copyTimers + 1
    /\ lastEvent' = "copied"
    /\ effects' = {}
    /\ UNCHANGED <<inputVars, appVars, previewVars, captureVars, clientVars>>

\* writeText rejects: the promise has no catch, nothing is set
ClipboardRejected ==
    /\ copyWrites > 0
    /\ copyWrites' = copyWrites - 1
    /\ lastEvent' = "copy failed"
    /\ effects' = { UnhandledRejection }
    /\ UNCHANGED <<inputVars, appVars, previewVars, captureVars, copiedPrompt, copyTimers, clientVars>>

\* 2000 ms after a copy: setCopiedPrompt(false). The timers all wait the
\* same time, so the one that runs is the oldest.
CopyTimerFires ==
    /\ copyTimers > 0
    /\ copyTimers' = copyTimers - 1
    /\ copiedPrompt' = FALSE
    /\ lastEvent' = "copy timer"
    /\ effects' = {}
    /\ UNCHANGED <<inputVars, appVars, previewVars, captureVars, copyWrites, clientVars>>

\* the interval left running when the loading is over
TickDangling ==
    /\ loadingStep' = IF loadingStep < 4 THEN loadingStep + 1 ELSE loadingStep
    /\ lastEvent' = "tick"
    /\ effects' = {}
    /\ UNCHANGED <<inputVars, appVars, showSplitView, isRecording, captureVars, copyVars, clientVars>>

\* setLoadingStep(prev => (prev < 4 ? prev + 1 : prev)), while the interval
\* the loading effect set is not yet cleared
Tick ==
    /\ isGenerating
    /\ loadingStep' = IF loadingStep < 4 THEN loadingStep + 1 ELSE loadingStep
    /\ lastEvent' = "tick"
    /\ effects' = {}
    /\ UNCHANGED <<inputVars, appVars, showSplitView, isRecording, captureVars, copyVars, clientVars>>

\* the compare button: setShowSplitView(!showSplitView)
ToggleSplitView ==
    /\ ActionsShown
    /\ HasImage(creation)
    /\ showSplitView' = ~showSplitView
    /\ lastEvent' = "toggle"
    /\ effects' = {}
    /\ UNCHANGED <<inputVars, appVars, loadingStep, isRecording, captureVars, copyVars, clientVars>>

\* handleRecordVideo up to its await: the button is disabled while
\* isRecording; if (!creation) return; without getDisplayMedia the handler
\* alerts and returns
ClickRecord ==
    /\ ActionsShown
    /\ lastEvent' = "click record"
    /\ IF isRecording \/ creation = NoCreation
       THEN UNCHANGED captures /\ effects' = {}
       ELSE IF ~captureSupported
       THEN UNCHANGED captures /\ effects' = { Alert }
       ELSE /\ Len(captures) < MaxCaptures
            /\ captures' = Append(captures, [name |-> creation.name, phase |-> "prompt",
                                             chunks |-> <<>>])
            /\ effects' = { Alert, CaptureRequest }
    /\ UNCHANGED <<inputVars, appVars, previewVars, captureSupported, copyVars, clientVars>>

\* getDisplayMedia resolves: setIsRecording(true), the recorder is made and
\* started and the frame reloaded
CaptureGranted(i) ==
    /\ i \in 1..Len(captures)
    /\ captures[i].phase = "prompt"
    /\ isRecording' = TRUE
    /\ captures' = [captures EXCEPT ![i].phase = "recording"]
    /\ lastEvent' = "granted"
    /\ effects' = IF FrameShown THEN { RecorderStart, FrameReload } ELSE { RecorderStart }
    /\ UNCHANGED <<inputVars, appVars, loadingStep, showSplitView, captureSupported, copyVars, clientVars>>

\* getDisplayMedia resolves but new MediaRecorder or start() throws: the
\* catch block sets the flag back, the stream is left as it was granted
RecorderFails(i) ==
    /\ i \in 1..Len(captures)
    /\ captures[i].phase = "prompt"
    /\ isRecording' = FALSE
    /\ captures' = [captures EXCEPT ![i].phase = "failed"]
    /\ lastEvent' = "recorder failed"
    /\ effects' = {}
    /\ UNCHANGED <<inputVars, appVars, loadingStep, showSplitView, captureSupported, copyVars, clientVars>>

\* a catch block that asks for the capture once more
CaptureDeniedRetry(i) ==
    /\ i \in 1..Len(captures)
    /\ captures[i].phase = "prompt"
    /\ isRecording' = FALSE
    /\ captures' = [captures EXCEPT ![i].phase = "prompt"]
    /\ lastEvent' = "denied"
    /\ effects' = { CaptureRequest }
    /\ UNCHANGED <<inputVars, appVars, loadingStep, showSplitView, captureSupported, copyVars, clientVars>>

\* getDisplayMedia rejects (denied or dismissed): the catch block
CaptureDenied(i) ==
    /\ i \in 1..Len(captures)
    /\ captures[i].phase = "prompt"
    /\ isRecording' = FALSE
    /\ captures' = [captures EXCEPT ![i].phase = "denied"]
    /\ lastEvent' = "denied"
    /\ effects' = {}
    /\ UNCHANGED <<inputVars, appVars, loadingStep, showSplitView, captureSupported, copyVars, clientVars>>

\* the sizes of the chunks a recorder hands over: empty, or with some data
ChunkSizes == { 0, 1 }

\* the chunk of that size a recorder hands over after the chunks kept so
\* far: the data of a chunk that has some is its number among those that do
ChunkAfter(kept, size) ==
    [data |-> IF size = 0 THEN 0 ELSE Len(kept) + 1, size |-> size]

\* a recorder that keeps the empty chunks too
DataAvailableUnfiltered(i, size) ==
    /\ i \in 1..Len(captures)
    /\ captures[i].phase = "recording"
    /\ Len(captures[i].chunks) < MaxChunks
    /\ captures' = [captures EXCEPT ![i].chunks = Append(@, ChunkAfter(@, size))]
    /\ lastEvent' = IF size > 0 THEN "data" ELSE "empty data"
    /\ effects' = {}
    /\ UNCHANGED <<inputVars, appVars, previewVars, captureSupported, copyVars, clientVars>>

\* mediaRecorder.ondataavailable: if (e.data.size > 0) chunks.push(e.data)
DataAvailable(i, size) ==
    /\ i \in 1..Len(captures)
    /\ captures[i].phase = "recording"
    /\ Len(captures[i].chunks) < MaxChunks
    /\ captures' = [captures EXCEPT ![i].chunks =
                        IF size > 0 THEN Append(@, ChunkAfter(@, size)) ELSE @]
    /\ lastEvent' = IF size > 0 THEN "data" ELSE "empty data"
    /\ effects' = {}
    /\ UNCHANGED <<inputVars, appVars, previewVars, captureSupported, copyVars, clientVars>>

\* new Blob(chunks, ...): the chunks' data, one after the other
RECURSIVE BlobOf(_)
BlobOf(chunks) ==
    IF chunks = <<>> THEN <<>> ELSE <<Head(chunks).data>> \o BlobOf(Tail(chunks))

\* the user stops sharing: mediaRecorder.onstop
StreamStopped(i) ==
    /\ i \in 1..Len(captures)
    /\ captures[i].phase = "recording"
    /\ isRecording' = FALSE
    /\ captures' = [captures EXCEPT ![i].phase = "stopped", ![i].chunks = <<>>]
    /\ lastEvent' = "stopped"
    /\ effects' = { Download(WebmFileName(captures[i].name), "video/webm",
                              BlobOf(captures[i].chunks)),
                     TracksStopped(i) }
    /\ UNCHANGED <<inputVars, appVars, loadingStep, showSplitView, captureSupported, copyVars, clientVars>>

\* the input area hands the application a submit; it does so only while
\* not generating (SubmitDisabled, TextareaDisabled)
Submit(files) ==
    /\ ~isGenerating
    /\ OnGenerate(<<"a">>, <<>>, files)
    /\ lastEvent' = "submit"
    /\ effects' = {}
    /\ UNCHANGED <<inputVars, isRecording, captureVars, copyVars, clientVars>>

\* a browser with screen capture, or one without
Init == ClientIdle /\ UiInit /\ captureSupported \in BOOLEAN

Next ==
    \/ \E files \in { <<>>, <<PngFile>> } : Submit(files)
    \/ \E req \in pending, resp \in UiResponses : GenerationSucceeds(req, resp)
    \/ \E req \in pending : GenerationFails(req)
    \/ Reset
    \/ Tick
    \/ ToggleSplitView
    \/ ClickRecord
    \/ \E i \in 1..MaxCaptures : CaptureGranted(i)
    \/ \E i \in 1..MaxCaptures : RecorderFails(i)
    \/ \E i \in 1..MaxCaptures : CaptureDenied(i)
    \/ \E i \in 1..MaxCaptures : StreamStopped(i)

\* the preview panel, with the application's generations behind it
Spec == Init /\ [][Next]_vars

ExportNext ==
    \/ Submit(<<>>)
    \/ \E req \in pending : GenerationSucceeds(req, Resolved(TRUE, <<"x">>))
    \/ \E req \in pending : GenerationFails(req)
    \/ Reset
    \/ ClickDownload
    \/ ClickRecord
    \/ \E i \in 1..MaxCaptures : CaptureGranted(i)
    \/ \E i \in 1..MaxCaptures : RecorderFails(i)
    \/ \E i \in 1..MaxCaptures : CaptureDenied(i)
    \/ \E i \in 1..MaxCaptures, size \in ChunkSizes : DataAvailable(i, size)
    \/ \E i \in 1..MaxCaptures : StreamStopped(i)

\* the preview panel's export actions, with the application's generations
\* behind them
SpecExport == Init /\ [][ExportNext]_vars

\* the characters names are drawn from
NameAlphabet == { "a", "D", "7", ".", " ", EAcute }

Names == SeqsUpTo(NameAlphabet, MaxNameLen) \cup { DemoName }

\* the pieces documents are drawn from
HtmlPieces == { PromptOpen, ScriptClose, " ", "p" }

Htmls == SeqsUpTo(HtmlPieces, MaxHtmlPieces)

\* the first Creation of a run, as a successful generation leaves it
Rendered(name, html) ==
    [id |-> 1, name |-> name, originalImage |-> NoImage, html |-> html]

RenderedCreations ==
    { Rendered(n, <<"x">>) : n \in Names } \cup { Rendered(DemoName, h) : h \in Htmls }

\* the panel showing its first Creation
RenderedInit ==
    /\ ClientIdle
    /\ url = <<>>
    /\ instructions = <<>>
    /\ attachedFiles = <<>>
    /\ isDragging = FALSE
    /\ isGenerating = FALSE
    /\ creation \in RenderedCreations
    /\ pending = {}
    /\ nextId = 2
    /\ loadingStep = 0
    /\ showSplitView = FALSE
    /\ isRecording = FALSE
    /\ copiedPrompt = FALSE
    /\ copyWrites = 0
    /\ copyTimers = 0
    /\ captureSupported = TRUE
    /\ captures = <<>>
    /\ lastEvent = "succeeded"
    /\ effects = {}

RenderedNext ==
    \/ Reset
    \/ ClickDownload
    \/ ClickCopy
    \/ ClipboardResolved
    \/ ClipboardRejected
    \/ CopyTimerFires

\* the download and the copy of one Creation, over every name and document
SpecRendered == RenderedInit /\ [][RenderedNext]_vars

-----------------------------------------------------------------------------
(* The preview panel (Spec) *)

\* C9: a step that changes the active Creation leaves the split-view flag
\* true if the new Creation has an originalImage and false if it has none
\* or there is no Creation, whatever the flag was.
C9_SplitViewRecomputed ==
    [][creation' # creation => showSplitView' = HasImage(creation')]_vars

C9_Witness ==
    /\ lastEvent = "succeeded"
    /\ creation.id = 2
    /\ ~HasImage(creation)
    /\ ~showSplitView

\* C10 as first stated: a step that changes the active Creation leaves the
\* recording flag false and the loading step index 0.
C10_ViewStateReset ==
    [][creation' # creation => (~isRecording' /\ loadingStep' = 0)]_vars

\* C10: a step that changes the active Creation leaves the loading step
\* index 0 and the recording flag as it was.
C10_LoadingStepReset ==
    [][creation' # creation => (loadingStep' = 0 /\ isRecording' = isRecording)]_vars

C10_Witness ==
    /\ lastEvent = "reset"
    /\ creation = NoCreation
    /\ isRecording
    /\ loadingStep = 0
    /\ \E i \in 1..Len(captures) : captures[i].phase = "recording"

-----------------------------------------------------------------------------
(* The input area (SpecInput) *)

SubmitEvents == { "click submit", "enter" }

\* C7: with the URL and the instructions empty or all white space and no
\* attachment, a click on the submit button or Enter in the textarea calls
\* onGenerate for nothing and leaves the input as it is.
C7_EmptySubmitRejected ==
    [][(InputEmpty /\ lastEvent' \in SubmitEvents) =>
            UNCHANGED <<url, instructions, attachedFiles, nextId, pending, isGenerating>>]_vars

C7_Witness ==
    /\ lastEvent = "enter"
    /\ url = <<" ", "\n">>
    /\ instructions = <<" ", "\n">>
    /\ attachedFiles = <<>>
    /\ nextId = 1
    /\ ~isGenerating

Idle == ~isGenerating /\ creation = NoCreation

\* C8 as first stated: the calls of bringToLife not yet settled are never
\* more than one.
C8_AtMostOneInFlight == Cardinality(pending) <= 1

\* C8: a submit with some input takes Idle to Generating with one more call
\* under way, and no step taken while Generating is a call of onGenerate.
C8_SubmitStartsGenerating ==
    [][ /\ (Idle /\ ~InputEmpty /\ lastEvent' \in SubmitEvents) =>
              /\ isGenerating'
              /\ nextId' = nextId + 1
              /\ Cardinality(pending') = Cardinality(pending) + 1
        /\ isGenerating => (nextId' = nextId /\ pending' \subseteq pending) ]_vars

C8_Witness ==
    /\ lastEvent = "enter"
    /\ isGenerating
    /\ ~InputEmpty
    /\ Cardinality(pending) = 1
    /\ nextId = 2

-----------------------------------------------------------------------------
(* The fence stripping of bringToLife (SpecStrip) *)

StartsOrEndsWithFence(s) == StartsWith(s, Fence) \/ EndsWith(s, Fence)

\* C1: stripping the fences of a response text twice gives what stripping
\* them once gives, and a text that neither starts nor ends with a fence
\* comes back unchanged.
C1_StripIdempotent ==
    cPc = "returned" =>
        LET t == ResponseText(cResponse)
        IN  /\ StripFences(cOutcome.value) = cOutcome.value
            /\ (~StartsOrEndsWithFence(t) => cOutcome.value = t)

AllSpace(s) == \A i \in 1..Len(s) : s[i] \in WhiteSpace

\* o is an opening fence: three grave accents, the html tag or none, and the
\* white space up to the document
IsOpeningFence(o) ==
    \/ StartsWith(o, Fence \o HtmlTag) /\ AllSpace(Drop(o, 7))
    \/ StartsWith(o, Fence) /\ AllSpace(Drop(o, 3))

\* t is the document doc between the opening fence t[1..i] and a closing
\* fence. The opening fence is the whole of it (the document starts with
\* neither white space nor, straight after the bare fence, the html tag) and
\* the document does not itself start with a further fence.
IsWrapped(t, i, doc) ==
    /\ i \in 3..(Len(t) - 3)
    /\ IsOpeningFence(SubSeq(t, 1, i))
    /\ EndsWith(t, Fence)
    /\ doc = SubSeq(t, i + 1, Len(t) - 3)
    /\ (doc # <<>> => Head(doc) \notin WhiteSpace)
    /\ (i = 3 => ~StartsWith(doc, HtmlTag))
    /\ ~StartsWith(doc, Fence)

WrappedDocs(t) ==
    { d \in { SubSeq(t, i + 1, Len(t) - 3) : i \in 3..(Len(t) - 3) } :
        \E i \in 3..(Len(t) - 3) : IsWrapped(t, i, d) }

RECURSIVE HasFence(_)
HasFence(s) ==
    /\ Len(s) >= 3
    /\ (StartsWith(s, Fence) \/ HasFence(Tail(s)))

-----------------------------------------------------------------------------
(* One call of bringToLife (SpecClient) *)

HasNoText(resp) == resp.kind = "resolved" /\ (~resp.hasText \/ resp.text = <<>>)

\* C3: a resolved response with a missing or empty text gives the
\* placeholder comment as the call's return value.
C3_PlaceholderOnNoText ==
    HasNoText(cResponse) => cOutcome = [kind |-> "returned", value |-> Placeholder]

C3_Witness ==
    /\ cPc = "returned"
    /\ cResponse = Resolved(FALSE, <<>>)
    /\ cOutcome.value = Placeholder

\* C4: a call has handed exactly one request to the model from the await
\* on, whether it then returns or throws, and none before.
C4_ExactlyOneRequest ==
    /\ cPc = "ready" => Len(cSent) = 0
    /\ cPc \in {"awaiting", "returned", "thrown"} => Len(cSent) = 1

C4_Witness ==
    /\ cPc = "thrown"
    /\ Len(cSent) = 1

\* C5: a rejected request makes the call throw that same error: it returns
\* no string, placeholder included.
C5_FailurePropagates ==
    cResponse.kind = "rejected" =>
        /\ cPc = "thrown"
        /\ cOutcome = [kind |-> "thrown", error |-> cResponse.error]

C5_Witness ==
    /\ cResponse.kind = "rejected"
    /\ cOutcome.kind = "thrown"
    /\ cLog # <<>>

InlineCount(parts) ==
    Cardinality({ i \in 1..Len(parts) : parts[i].kind = "inlineData" })

\* C6: the request is one text part followed by one inline part per
\* attachment, in attachment order, each with that attachment's payload and
\* MIME type; the image count in the text part is the number of inline parts.
C6_PartsFollowAttachments ==
    cPc # "ready" =>
        LET parts == cSent[1]
        IN  /\ Len(parts) = 1 + Len(cImages)
            /\ parts[1].kind = "text"
            /\ parts[1].url = cUrl /\ parts[1].instructions = cInstructions
            /\ \A i \in 1..Len(cImages) :
                    parts[i + 1] = [kind |-> "inlineData",
                                    data |-> cImages[i].base64,
                                    mimeType |-> cImages[i].mimeType]
            /\ parts[1].imageCount = InlineCount(parts)

C6_Witness ==
    /\ cPc # "ready"
    /\ Len(cImages) = 2
    /\ cImages[1] # cImages[2]
    /\ InlineCount(cSent[1]) = 2

-----------------------------------------------------------------------------
(* The export actions of the preview panel (SpecExport) *)

ExportKinds == { "download", "clipboard write", "capture request" }

\* C11: a step taken while no Creation is present or a generation is
\* loading produces no download, no clipboard write and no capture request.
C11_ExportsOnlyInRendered ==
    [][~ActionsShown => \A e \in effects' : e.kind \notin ExportKinds]_vars

-----------------------------------------------------------------------------
(* The download and the copy of one Creation (SpecRendered) *)

HtmlDownloads == { e \in effects : e.kind = "download" /\ e.type = "text/html" }

\* C12 as first stated: the download filename is the creation name with the
\* characters outside letters and digits removed, lower-cased, and '.html';
\* for 'Linear.app Demo!' it is 'linearapp_demo.html'.
C12_FilenameStripped ==
    \A e \in HtmlDownloads :
        /\ e.filename = SanitizeRemoving(creation.name) \o DotHtml
        /\ creation.name = DemoName =>
              e.filename = << "l", "i", "n", "e", "a", "r", "a", "p", "p", "_",
                              "d", "e", "m", "o" >> \o DotHtml

\* C12: the download filename is as long as the creation name and '.html';
\* it holds, place by place, the lower-cased character of the name where
\* that is one of a-z, A-Z, 0-9 and '_' where it is not, then '.html'; for
\* 'Linear.app Demo!' it is 'linear_app_demo_.html'.
C12_FilenameSanitized ==
    \A e \in HtmlDownloads :
        LET name == creation.name
        IN  /\ Len(e.filename) = Len(name) + 5
            /\ \A i \in 1..Len(name) :
                  e.filename[i] = IF IsAlnum(name[i]) THEN ToLower(name[i]) ELSE "_"
            /\ SubSeq(e.filename, Len(name) + 1, Len(name) + 5) = DotHtml
            /\ name = DemoName =>
                  e.filename = << "l", "i", "n", "e", "a", "r", "_", "a", "p", "p", "_",
                                  "d", "e", "m", "o", "_" >> \o DotHtml

C12_Witness ==
    /\ lastEvent = "click download"
    /\ creation.name = << "D", ".", EAcute >>
    /\ \E e \in HtmlDownloads : e.filename = << "d", "_", "_" >> \o DotHtml

ClipboardWrites == { e \in effects : e.kind = "clipboard write" }

\* C13: a copy writes to the clipboard the content of the design-prompt-data
\* tag, less the white space around it, whenever creation.html holds the tag
\* (its content empty or all white space included), and the fallback
\* sentence with the creation's name only when it holds no such tag.
C13_TagContentCopied ==
    \A e \in ClipboardWrites :
        LET m == PromptMatch(creation.html)
        IN  /\ m.matched => e.text = Trim(m.group)
            /\ ~m.matched => e.text = FallbackPrompt(creation.name)

\* C14: the timer a successful copy sets runs 2 seconds after that copy; as
\* long as the timer of some copy has not run, the acknowledgment is shown,
\* and once no timer is left it is not shown.
C14_ShownTwoSecondsPerCopy ==
    /\ copyTimers > 0 => copiedPrompt
    /\ copyTimers = 0 => ~copiedPrompt

RecordingOutcomes == { "recorder start", "download", "frame reload", "capture request",
                       "unhandled rejection" }

Recorders == { i \in 1..Len(captures) : captures[i].phase = "recording" }

\* C15: a click on record in a browser without screen capture, and the
\* denial or dismissal of the capture prompt, start no recorder, download
\* no file, do not reload the frame, ask for no further capture, let no
\* exception out and leave the recording flag false.
C15_RecordAborts ==
    [][((~captureSupported /\ lastEvent' = "click record") \/ lastEvent' = "denied") =>
            /\ \A e \in effects' : e.kind \notin RecordingOutcomes
            /\ ~isRecording'
            /\ Len(captures') = Len(captures)
            /\ Recorders' = Recorders
            /\ \A i \in 1..Len(captures) :
                  captures[i].phase # "prompt" => captures'[i] = captures[i]]_vars

C15_Witness ==
    /\ lastEvent = "denied"
    /\ \E i \in 1..Len(captures) : captures[i].phase = "denied"
    /\ ~isRecording
    /\ effects = {}

Downloads == { e \in effects : e.kind = "download" }

\* 'linear_app_demo__demo.webm'
DemoWebmName ==
    << "l", "i", "n", "e", "a", "r", "_", "a", "p", "p", "_", "d", "e", "m", "o", "_",
       "_", "d", "e", "m", "o", ".", "w", "e", "b", "m" >>

\* C16: a recorder keeps every chunk that has data, in the order they come,
\* and no empty one; the stop of its stream sets the recording flag false,
\* downloads exactly one file, named after the sanitized name of the
\* Creation and '_demo.webm' and made of the kept chunks in their order, and
\* stops the tracks of the stream.
C16_StopEmitsVideo ==
    [][ /\ lastEvent' = "data" =>
              \E i \in Recorders :
                  /\ captures'[i].chunks =
                        Append(captures[i].chunks,
                               [data |-> Len(captures[i].chunks) + 1, size |-> 1])
                  /\ \A j \in 1..Len(captures) : j # i => captures'[j] = captures[j]
        /\ lastEvent' = "empty data" => captures' = captures
        /\ lastEvent' = "stopped" =>
              \E i \in Recorders :
                  /\ captures'[i].phase = "stopped"
                  /\ ~isRecording'
                  /\ Downloads' =
                        { Download(DemoWebmName, "video/webm",
                                   [k \in 1..Len(captures[i].chunks) |-> k]) }
                  /\ TracksStopped(i) \in effects' ]_vars

C16_Witness ==
    /\ lastEvent = "stopped"
    /\ ~isRecording
    /\ \E e \in Downloads : e.filename = DemoWebmName /\ e.content = << 1, 2 >>
    /\ \E i \in 1..Len(captures) : TracksStopped(i) \in effects

\* C17: the stop of the stream of a recorder that has kept no chunk
\* downloads no file, sets the recording flag false and lets no exception
\* out.
C17_NoVideoWithoutData ==
    [][(lastEvent' = "stopped" /\
            \E i \in Recorders : captures[i].chunks = <<>> /\ captures'[i].phase = "stopped") =>
            /\ Downloads' = {}
            /\ ~isRecording'
            /\ UnhandledRejection \notin effects']_vars

-----------------------------------------------------------------------------
(* The attachment list of the input area (SpecAttach) *)

Offers == { Offer(origin, offered) : origin \in Origins, offered \in FileLists }

\* C18: a pick appends the files offered, all of them and in their order,
\* at the end of the attachment list; a paste or a drop appends there those
\* of the files offered that are images, in their order (and nothing while
\* a generation runs); the entries already in the list stay as they are,
\* and the list grows by no other event.
C18_AttachmentsAppended ==
    [][ /\ lastEvent' \in Offers =>
              \A offered \in FileLists :
                  /\ lastEvent' = Offer("pick", offered) =>
                          attachedFiles' = attachedFiles \o offered
                  /\ lastEvent' \in { Offer("paste", offered), Offer("drop", offered) } =>
                          attachedFiles' = IF isGenerating THEN attachedFiles
                                           ELSE attachedFiles \o SelectSeq(offered, IsImage)
        /\ Len(attachedFiles') > Len(attachedFiles) => lastEvent' \in Offers ]_vars

C18_Witness ==
    /\ lastEvent = Offer("pick", << TextFile >>)
    /\ attachedFiles = << PngFile, TextFile >>
    /\ ~isGenerating

-----------------------------------------------------------------------------
(* Failed generations and the loading steps (Spec) *)

\* C19: a call that fails while the panel is Generating leaves it Idle: not
\* generating, with no Creation, whole or in part, and with the header
\* actions (download, record) not shown.
C19_FailureReturnsToIdle ==
    [][(isGenerating /\ lastEvent' = "failed") =>
            /\ ~isGenerating'
            /\ creation' = NoCreation
            /\ ~ActionsShown']_vars

C19_Witness ==
    /\ lastEvent = "failed"
    /\ Idle
    /\ nextId = 2
    /\ pending = {}
    /\ loadingStep = 0

\* C20: the loading step index is within 0..4; it is 0 when a loading starts
\* and whenever none runs; a timer tick raises it by one up to 4 and leaves
\* it at 4, and comes only while a loading runs.
C20_LoadingStepBounded ==
    [][ /\ loadingStep \in 0..4 /\ loadingStep' \in 0..4
        /\ (~isGenerating /\ isGenerating') => loadingStep' = 0
        /\ ~isGenerating' => loadingStep' = 0
        /\ lastEvent' = "tick" =>
              /\ isGenerating /\ isGenerating'
              /\ loadingStep' = IF loadingStep < 4 THEN loadingStep + 1 ELSE 4
        /\ (isGenerating /\ isGenerating' /\ lastEvent' # "tick") =>
              loadingStep' = loadingStep ]_vars

C20_Witness ==
    /\ lastEvent = "tick"
    /\ isGenerating
    /\ loadingStep = 4
    /\ nextId = 3

-----------------------------------------------------------------------------
(* The capture sessions of the preview panel (SpecExport) *)

\* C21: the recorders running are never more than one, however the clicks
\* on record fall among the capture prompts still open, and the recording
\* flag is true exactly while one runs.
C21_OneCaptureSession ==
    /\ Cardinality(Recorders) <= 1
    /\ isRecording <=> Recorders # {}

\* the captures whose granted stream has tracks not yet stopped: those with
\* a recorder running, and those whose recorder could not be made or started
LiveStreams ==
    { i \in 1..Len(captures) : captures[i].phase \in { "recording", "failed" } }

\* C22: while the recording flag is false no granted stream is live, the
\* stream of a recorder that could not be made or started included.
C22_NoLiveStreamWhenIdle == ~isRecording => LiveStreams = {}

====
